---- MODULE Spec2Model ----
(***************************************************************************)
(* A model of midi.py: the Standard MIDI File codec (MidiFile, MidiTrack,  *)
(* MidiEvent: parse and to_file), the four editing operations (pitch,      *)
(* velocity, chorus, delay) and the interactive shell that drives them.    *)
(*                                                                         *)
(* Bytes are sequences over 0..255.  A binary stream f is the pair         *)
(* (data, pos): the whole content and the 0-based read offset.  Python's   *)
(* None is the integer None (-1), which no byte value equals.  A value     *)
(* the code computes once and uses several times is handed on as an        *)
(* operator's parameter.                                                   *)
(***************************************************************************)
EXTENDS Integers, Sequences, FiniteSets, Bags, TLC

\* self.note = None / self.velocity = None / self.channel = None
None == -1

Min(a, b) == IF a <= b THEN a ELSE b
Max(a, b) == IF a >= b THEN a ELSE b

\* b'MThd' and b'MTrk'
MThd == <<77, 84, 104, 100>>
MTrk == <<77, 84, 114, 107>>

(***************************************************************************)
(* Primitives of the byte stream.                                          *)
(***************************************************************************)

\* f.read(number): the next `number` bytes, fewer (or none) at end of stream.
Read(data, pos, number) == SubSeq(data, pos + 1, Min(pos + number, Len(data)))

\* The offset after f.read(number).
Advance(data, pos, number) == Min(pos + number, Len(data))

\* int.from_bytes(bs, byteorder="big"); int.from_bytes(b'') is 0.
RECURSIVE FromBytes(_)
FromBytes(bs) ==
    IF Len(bs) = 0 THEN 0
    ELSE 256 * FromBytes(SubSeq(bs, 1, Len(bs) - 1)) + bs[Len(bs)]

\* n.to_bytes(width, byteorder="big"), for 0 <= n < 256^width (outside that
\* range Python raises OverflowError; every value the program stores in a
\* serialized field was read from that many bytes or clamped to 0..127).
ToBytes(n, width) == [i \in 1..width |-> (n \div (256 ^ (width - i))) % 256]

(***************************************************************************)
(* MidiEvent.__init__                                                      *)
(***************************************************************************)

\* if not raw >> 7 & 1: break
Continues(raw) == (raw \div 128) % 2 = 1

\* The delta-time loop (lines 105-110): one byte per turn, through
\* _read_bytes, so _length grows by one per turn even at end of stream.
RECURSIVE ReadTimedelta(_, _, _, _)
TimedeltaTurn(data, pos, shifted, length, raw) ==
    IF Continues(raw)
    THEN ReadTimedelta(data, Advance(data, pos, 1), shifted + (raw % 128),
                       length + 1)
    ELSE [timedelta |-> shifted + (raw % 128), pos |-> Advance(data, pos, 1),
          length |-> length + 1]

ReadTimedelta(data, pos, timedelta, length) ==
    TimedeltaTurn(data, pos, timedelta * 128, length,
                  FromBytes(Read(data, pos, 1)))

\* The "how much to ignore" loop (lines 121-128): every prefix byte is kept
\* in _trailing_ignore and its low seven bits are ADDED to ignore_num.
RECURSIVE ReadIgnoreNum(_, _, _, _, _)
IgnoreNumTurn(data, pos, ignore_num, trailing, length, raw) ==
    IF Continues(raw)
    THEN ReadIgnoreNum(data, Advance(data, pos, 1), ignore_num + (raw % 128),
                       trailing, length + 1)
    ELSE [ignore_num |-> ignore_num + (raw % 128), trailing |-> trailing,
          pos |-> Advance(data, pos, 1), length |-> length + 1]

ReadIgnoreNum(data, pos, ignore_num, trailing, length) ==
    IgnoreNumTurn(data, pos, ignore_num, trailing \o Read(data, pos, 1),
                  length, FromBytes(Read(data, pos, 1)))

\* An event object: the fields __init__ sets.
Event(td, info, note, vel, chan, trailing, length) ==
    [timedelta |-> td, event_info |-> info, note |-> note, velocity |-> vel,
     channel |-> chan, trailing_ignore |-> trailing, length |-> length]

\* Line 129: the payload of ignore_num bytes, after the prefix loop g.
IgnoredEvent(data, timedelta, event_info, g) ==
    [err |-> "none",
     ev  |-> Event(timedelta, event_info, None, None, None,
                   g.trailing \o Read(data, g.pos, g.ignore_num),
                   g.length + g.ignore_num),
     pos |-> Advance(data, g.pos, g.ignore_num)]

\* Lines 113-139: the dispatch on the event type.  pos and length are the
\* offset and _length after the status byte.
EventOfType(data, timedelta, event_info, pos, length) ==
    IF event_info \div 16 = 15 THEN
        IF event_info % 16 = 15
        THEN IgnoredEvent(data, timedelta, event_info,
                 ReadIgnoreNum(data, Advance(data, pos, 1), 0,
                               Read(data, pos, 1), length + 1))
        ELSE IgnoredEvent(data, timedelta, event_info,
                 ReadIgnoreNum(data, pos, 0, <<>>, length))
    ELSE IF event_info \div 16 \in {10, 11, 14} THEN
        [err |-> "none",
         ev  |-> Event(timedelta, event_info, None, None, None,
                       Read(data, pos, 2), length + 2),
         pos |-> Advance(data, pos, 2)]
    ELSE IF event_info \div 16 \in {12, 13} THEN
        [err |-> "none",
         ev  |-> Event(timedelta, event_info, None, None, None,
                       Read(data, pos, 1), length + 1),
         pos |-> Advance(data, pos, 1)]
    ELSE IF event_info \div 16 \in {8, 9} THEN
        [err |-> "none",
         ev  |-> Event(timedelta, event_info,
                       FromBytes(Read(data, pos, 1)),
                       FromBytes(Read(data, Advance(data, pos, 1), 1)),
                       event_info % 16, <<>>, length + 2),
         pos |-> Advance(data, pos, 2)]
    ELSE
        [err |-> "MIDIError",
         ev  |-> Event(timedelta, event_info, None, None, None, <<>>, length),
         pos |-> pos]

\* Line 112: the status byte, after the delta-time loop d.
EventAfterDelta(data, d) ==
    EventOfType(data, d.timedelta, FromBytes(Read(data, d.pos, 1)),
                Advance(data, d.pos, 1), d.length + 1)

\* MidiEvent(f): err is "none" and ev the event, or err is "MIDIError".
\* pos is the stream offset when the constructor returns or raises.
MidiEvent(data, pos) == EventAfterDelta(data, ReadTimedelta(data, pos, 0, 0))

(***************************************************************************)
(* MidiEvent.to_file                                                       *)
(***************************************************************************)

\* The continuation bit on the wrong bytes: set on the last, not on the
\* others.
NextByteFlipped(td, is_first) ==
    IF is_first THEN (td % 128) + 128 ELSE td % 128

\* next_byte = td & 0b1111111; if not is_first: next_byte |= 0b10000000
NextByte(td, is_first) == IF is_first THEN td % 128 ELSE (td % 128) + 128

\* The while td loop (lines 154-160): seven bits per turn, lowest group
\* first, each byte put in front of the result.
RECURSIVE EncodeTimedelta(_, _, _)
EncodeTimedelta(td, is_first, result) ==
    IF td = 0 THEN result
    ELSE EncodeTimedelta(td \div 128, FALSE,
                         <<NextByte(td, is_first)>> \o result)

\* if len(result) == 0: result = bytes(1)
NeverEmpty(result) == IF Len(result) = 0 THEN <<0>> ELSE result

\* Lines 151-163: the delta-time bytes.
TimedeltaBytes(td) == NeverEmpty(EncodeTimedelta(td, TRUE, <<>>))

\* MidiEvent.to_file (timedelta >= 0; a negative one never leaves the loop).
EventToFile(ev) ==
    TimedeltaBytes(ev.timedelta)
        \o ToBytes(ev.event_info, 1)
        \o (IF ev.note # None
            THEN ToBytes(ev.note, 1) \o ToBytes(ev.velocity, 1)
            ELSE <<>>)
        \o ev.trailing_ignore

(***************************************************************************)
(* MidiTrack                                                               *)
(***************************************************************************)

\* while length > 0: an overshoot would end the loop.
TrackLoopWhilePositive(length) == length > 0

\* while length:
TrackLoopContinues(length) == length # 0

\* while length: event = MidiEvent(f); events.append(event);
\*               length -= event._length
RECURSIVE TrackLoop(_, _, _, _)
TrackTurn(data, length, events, e) ==
    IF e.err # "none"
    THEN [err |-> e.err, events |-> events, pos |-> e.pos]
    ELSE TrackLoop(data, e.pos, length - e.ev.length, Append(events, e.ev))

TrackLoop(data, pos, length, events) ==
    IF TrackLoopContinues(length)
    THEN TrackTurn(data, length, events, MidiEvent(data, pos))
    ELSE [err |-> "none", events |-> events, pos |-> pos]

\* Lines 66-72: the chunk id is checked, the declared length read and the
\* events parsed.  pos is the offset after the chunk id.
TrackOfChunk(data, header, pos) ==
    IF header # MTrk
    THEN [err |-> "AssertionError", events |-> <<>>, pos |-> pos,
          declared |-> 0]
    ELSE [declared |-> FromBytes(Read(data, pos, 4))]
             @@ TrackLoop(data, Advance(data, pos, 4),
                          FromBytes(Read(data, pos, 4)), <<>>)

\* MidiTrack(f): a track is its list of events.  declared is the length
\* read from the chunk header (the local `length` before the loop).
MidiTrack(data, pos) ==
    TrackOfChunk(data, Read(data, pos, 4), Advance(data, pos, 4))

RECURSIVE ConcatEvents(_)
ConcatEvents(events) ==
    IF Len(events) = 0 THEN <<>>
    ELSE EventToFile(Head(events)) \o ConcatEvents(Tail(events))

\* b'MTrk' + len(result).to_bytes(4, byteorder="big") + result
ChunkBytes(result) == MTrk \o ToBytes(Len(result), 4) \o result

\* MidiTrack.to_file
TrackToFile(events) == ChunkBytes(ConcatEvents(events))

(***************************************************************************)
(* MidiFile                                                                *)
(***************************************************************************)

\* self.tracks = [MidiTrack(f) for x in range(self._num_tracks)]
RECURSIVE ReadTracks(_, _, _, _, _)
TracksTurn(data, n, tracks, declared, t) ==
    IF t.err # "none"
    THEN [err |-> t.err, tracks |-> tracks, declared |-> declared,
          pos |-> t.pos]
    ELSE ReadTracks(data, t.pos, n - 1, Append(tracks, t.events),
                    Append(declared, t.declared))

ReadTracks(data, pos, n, tracks, declared) ==
    IF n = 0
    THEN [err |-> "none", tracks |-> tracks, declared |-> declared, pos |-> pos]
    ELSE TracksTurn(data, n, tracks, declared, MidiTrack(data, pos))

\* self.per_quarter_note = self._division & 0b11111111111111
PerQuarterNote(division) == division % 16384

NoFile ==
    [length |-> 0, format |-> 0, num_tracks |-> 0, division |-> 0,
     division_type |-> 0, per_quarter_note |-> 0, trailing |-> <<>>,
     tracks |-> <<>>]

Raised(e) == [err |-> e, file |-> NoFile, declared |-> <<>>]

\* Line 37 and the object made: t is what reading the tracks gave.
FileOfTracks(length, format, ntracks, division, trailing, t) ==
    IF t.err # "none" THEN Raised(t.err)
    ELSE [err |-> "none",
          file |-> [length |-> length, format |-> format,
                    num_tracks |-> ntracks, division |-> division,
                    division_type |-> (division \div 32768) % 2,
                    per_quarter_note |-> PerQuarterNote(division),
                    trailing |-> trailing, tracks |-> t.tracks],
          declared |-> t.declared]

\* Lines 23-37, after the five header fields were read.
FileOfHeader(data, header, length, format, ntracks, division) ==
    IF header # MThd THEN Raised("AssertionError")
    ELSE IF ~(length >= 6) THEN Raised("AssertionError")
    ELSE IF (division \div 32768) % 2 = 1 THEN Raised("MIDIError")
    ELSE IF length > 6
    THEN FileOfTracks(length, format, ntracks, division,
             Read(data, Advance(data, 0, 14), length - 6),
             ReadTracks(data, Advance(data, Advance(data, 0, 14), length - 6),
                        ntracks, <<>>, <<>>))
    ELSE FileOfTracks(length, format, ntracks, division, <<>>,
             ReadTracks(data, Advance(data, 0, 14), ntracks, <<>>, <<>>))

\* MidiFile(f): err is "none" and file the object, or err names the
\* exception raised.  declared lists the track chunks' declared lengths.
MidiFile(data) ==
    FileOfHeader(data, Read(data, 0, 4), FromBytes(Read(data, 4, 4)),
                 FromBytes(Read(data, Advance(data, 0, 8), 2)),
                 FromBytes(Read(data, Advance(data, 0, 10), 2)),
                 FromBytes(Read(data, Advance(data, 0, 12), 2)))

RECURSIVE ConcatTracks(_)
ConcatTracks(tracks) ==
    IF Len(tracks) = 0 THEN <<>>
    ELSE TrackToFile(Head(tracks)) \o ConcatTracks(Tail(tracks))

\* MidiFile.to_file
FileToFile(file) ==
    MThd \o ToBytes(file.length, 4) \o ToBytes(file.format, 2)
         \o ToBytes(file.num_tracks, 2) \o ToBytes(file.division, 2)
         \o file.trailing \o ConcatTracks(file.tracks)

(***************************************************************************)
(* The editing operations.  `tracks` is the list the shell passes: every   *)
(* track of the file, or the one selected.  A track is its event list.     *)
(***************************************************************************)

\* max(0, note + amount): the upper bound forgotten.
ClampBelowOnly(note, amount) == Max(0, note + amount)

\* max(0, min(127, note + amount))
Clamp(note, amount) == Max(0, Min(127, note + amount))

\* pitch, lines 194-198, on one track.
PitchTrack(events, amount) ==
    [k \in 1..Len(events) |->
        IF events[k].note = None THEN events[k]
        ELSE [events[k] EXCEPT !.note = Clamp(events[k].note, amount)]]

\* velocity, lines 219-221: if amount < 1 or 127 < amount: ... continue
VelocityRefused(amount) == amount < 1 \/ 127 < amount

\* velocity, lines 222-226, on one track: `not event.velocity` skips None
\* and 0.
VelocityTrack(events, amount) ==
    [k \in 1..Len(events) |->
        IF events[k].velocity = None \/ events[k].velocity = 0
        THEN events[k]
        ELSE [events[k] EXCEPT !.velocity = amount]]

\* list.insert(index, x) for index >= 0: past the end it appends.
ListInsert(events, index, x) ==
    SubSeq(events, 1, Min(index, Len(events))) \o <<x>>
        \o SubSeq(events, Min(index, Len(events)) + 1, Len(events))

\* chorus, lines 258-260: the copy of `event` for one pitch.
ChorusCopy(event, pitch) ==
    [event EXCEPT !.timedelta = 0, !.note = Clamp(event.note, pitch)]

\* chorus, lines 257-261: for pitch in processed: insert a copy at idx + 1.
RECURSIVE ChorusPitches(_, _, _, _)
ChorusPitches(events, idx, processed, k) ==
    IF k > Len(processed) THEN events
    ELSE ChorusPitches(
             ListInsert(events, idx + 1,
                        ChorusCopy(events[idx + 1], processed[k])),
             idx, processed, k + 1)

\* chorus, lines 253-256: for idx in range(len(track.events)-1, -1, -1).
RECURSIVE ChorusLoop(_, _, _)
ChorusLoop(events, idx, processed) ==
    IF idx < 0 THEN events
    ELSE IF events[idx + 1].note = None
         THEN ChorusLoop(events, idx - 1, processed)
         ELSE ChorusLoop(ChorusPitches(events, idx, processed, 1), idx - 1,
                         processed)

ChorusTrack(events, processed) == ChorusLoop(events, Len(events) - 1, processed)

\* delay, lines 279-290: deltas below 1 are dropped;
\* ticks = int(per_quarter_note * (delta / 4)).
RECURSIVE DelayProcessed(_, _)
DelayProcessed(per_quarter_note, deltas) ==
    IF Len(deltas) = 0 THEN <<>>
    ELSE IF Head(deltas) < 1
         THEN DelayProcessed(per_quarter_note, Tail(deltas))
         ELSE <<(per_quarter_note * Head(deltas)) \div 4>>
                  \o DelayProcessed(per_quarter_note, Tail(deltas))

\* delay, lines 297-305: the for/else over `after`.  j counts the events
\* after idx, from 1; i is the function's local, None while it is unbound.
\* The else arm runs i += 1, which raises UnboundLocalError on an unbound i.
RECURSIVE DelayScan(_, _, _, _, _)
DelayScan(events, idx, j, ticks, i) ==
    IF idx + j >= Len(events)
    THEN IF i = None
         THEN [err |-> "UnboundLocalError", i |-> i, ticks |-> ticks]
         ELSE [err |-> "none", i |-> i + 1, ticks |-> ticks]
    ELSE IF events[idx + j + 1].timedelta > ticks
         THEN [err |-> "none", i |-> j, ticks |-> ticks]
         ELSE DelayScan(events, idx, j + 1,
                        ticks - events[idx + j + 1].timedelta, j)

\* delay, lines 309-310: the event the copy goes in front of starts that
\* many ticks sooner after it.
FixNext(events, at, ticks) ==
    IF Len(events) > at
    THEN [events EXCEPT ![at + 1].timedelta = @ - ticks]
    ELSE events

\* delay, lines 306-311: the copy of events[idx], put at idx + i.
DelayInsert(events, idx, i, ticks) ==
    ListInsert(FixNext(events, idx + i, ticks), idx + i,
               [events[idx + 1] EXCEPT !.timedelta = ticks])

\* delay, lines 296-311: for ticks in processed.  s is what the for/else
\* left in i and ticks.
RECURSIVE DelayTicks(_, _, _, _, _)
DelayTick(events, idx, processed, k, i, s) ==
    IF s.err # "none" THEN [err |-> s.err, events |-> events, i |-> i]
    ELSE DelayTicks(DelayInsert(events, idx, s.i, s.ticks), idx, processed,
                    k + 1, s.i)

DelayTicks(events, idx, processed, k, i) ==
    IF k > Len(processed) THEN [err |-> "none", events |-> events, i |-> i]
    ELSE DelayTick(events, idx, processed, k, i,
                   DelayScan(events, idx, 1, processed[k], i))

\* delay, lines 292-295: for idx in range(len(track.events)-1, -1, -1).
RECURSIVE DelayLoop(_, _, _, _)
DelayTurn(idx, processed, r) ==
    IF r.err # "none" THEN r
    ELSE DelayLoop(r.events, idx - 1, processed, r.i)

DelayLoop(events, idx, processed, i) ==
    IF idx < 0 THEN [err |-> "none", events |-> events, i |-> i]
    ELSE IF events[idx + 1].note = None
         THEN DelayLoop(events, idx - 1, processed, i)
         ELSE DelayTurn(idx, processed,
                        DelayTicks(events, idx, processed, 1, i))

DelayTrack(events, processed, i) ==
    DelayLoop(events, Len(events) - 1, processed, i)

\* The tracks an effect works on: all of them (track = "all", here 0) or
\* the one selected (numbered from 1).
Selected(tracks, track) ==
    IF track = 0 THEN 1..Len(tracks) ELSE {track}

\* for track in tracks: of pitch, velocity and chorus.
PitchTracks(tracks, track, amount) ==
    [t \in 1..Len(tracks) |->
        IF t \in Selected(tracks, track) THEN PitchTrack(tracks[t], amount)
        ELSE tracks[t]]

VelocityTracks(tracks, track, amount) ==
    [t \in 1..Len(tracks) |->
        IF t \in Selected(tracks, track) THEN VelocityTrack(tracks[t], amount)
        ELSE tracks[t]]

ChorusTracks(tracks, track, processed) ==
    [t \in 1..Len(tracks) |->
        IF t \in Selected(tracks, track) THEN ChorusTrack(tracks[t], processed)
        ELSE tracks[t]]

\* for track in tracks: of delay.  The local i lives across the tracks; an
\* exception leaves the tracks already worked on changed.
RECURSIVE DelayTracks(_, _, _, _, _)
DelayTracksTurn(tracks, track, processed, t, r) ==
    IF r.err # "none"
    THEN [err |-> r.err, tracks |-> tracks]
    ELSE DelayTracks([tracks EXCEPT ![t] = r.events], track, processed,
                     t + 1, r.i)

DelayTracks(tracks, track, processed, t, i) ==
    IF t > Len(tracks) THEN [err |-> "none", tracks |-> tracks]
    ELSE IF t \notin Selected(tracks, track)
         THEN DelayTracks(tracks, track, processed, t + 1, i)
         ELSE DelayTracksTurn(tracks, track, processed, t,
                              DelayTrack(tracks[t], processed, i))

(***************************************************************************)
(* Input files.  A file is built chunk by chunk as section 6 of the        *)
(* format lays it out, so that every declared length is met exactly.       *)
(***************************************************************************)

\* "MTrk" + length + the events' bytes.
TrackChunk(body) == MTrk \o ToBytes(Len(body), 4) \o body

\* "MThd" + length + format + track count + division + trailing bytes.
HeaderChunk(id, length, format, ntracks, division, trailing) ==
    id \o ToBytes(length, 4) \o ToBytes(format, 2) \o ToBytes(ntracks, 2)
       \o ToBytes(division, 2) \o trailing

\* note on, note off 96 ticks later, end of track.
BodyNotes == <<0, 144, 60, 64,  96, 128, 60, 0,  0, 255, 47, 0>>

\* One event of every type class 0xA..0xF, a two-byte delta-time (128), a
\* note on and a note off on channel 9, end of track.
BodyAll ==
    <<0, 160, 60, 10>> \o <<0, 176, 7, 100>> \o <<0, 192, 5>> \o <<0, 208, 9>>
    \o <<0, 224, 0, 64>> \o <<0, 240, 2, 1, 247>> \o <<0, 255, 1, 3, 97, 98, 99>>
    \o <<129, 0, 153, 62, 127>> \o <<16, 137, 62, 0>> \o <<0, 255, 47, 0>>

\* A delta-time of 0 written in two bytes (0x80 0x00), then end of track.
BodyLoose == <<128, 0, 144, 60, 64>> \o <<0, 255, 47, 0>>

\* The shortest payload whose length prefix takes two bytes (0x81 0x00).
LongPayload == [k \in 1..128 |-> 65]

\* A text meta event of 128 payload bytes, then end of track.
BodyLong == <<0, 255, 1, 129, 0>> \o LongPayload \o <<0, 255, 47, 0>>

FileNotes == HeaderChunk(MThd, 6, 0, 1, 96, <<>>) \o TrackChunk(BodyNotes)
FileTwo   == HeaderChunk(MThd, 8, 1, 2, 96, <<1, 2>>)
                 \o TrackChunk(BodyAll) \o TrackChunk(BodyNotes)
FileFine  == HeaderChunk(MThd, 6, 0, 1, 16480, <<>>) \o TrackChunk(BodyNotes)
FileLoose == HeaderChunk(MThd, 6, 0, 1, 96, <<>>) \o TrackChunk(BodyLoose)
FileLong  == HeaderChunk(MThd, 6, 0, 1, 96, <<>>) \o TrackChunk(BodyLong)

\* Ticks-mode files in which every declared length is met exactly.
WellFormedFiles == {FileNotes, FileTwo, FileFine, FileLoose, FileLong}

\* Files the format rules out: a wrong header id, a header length below 6,
\* a division field with the top bit set (SMPTE timing).
FileBadId     == HeaderChunk(<<88, 89, 90, 90>>, 6, 0, 1, 96, <<>>)
                     \o TrackChunk(BodyNotes)
FileShortHead == HeaderChunk(MThd, 5, 0, 1, 96, <<>>) \o TrackChunk(BodyNotes)
FileSmpte     == HeaderChunk(MThd, 6, 0, 1, 59176, <<>>) \o TrackChunk(BodyNotes)

RejectedFiles == {FileBadId, FileShortHead, FileSmpte}

\* FileNotes cut short after its first n bytes, for every n.
TruncatedFiles == {SubSeq(FileNotes, 1, n) : n \in 0..(Len(FileNotes) - 1)}

InputFiles == WellFormedFiles \cup RejectedFiles \cup TruncatedFiles

\* What the user may type at the effects' prompts.
PitchAmounts    == {-200, 7, 200}
VelocityAmounts == {0, 100}
ChorusNotes     == {<<4, 7>>, <<200>>}
DelayDeltas     == {<<1>>, <<0, 2, 4>>}

\* The number of effects applied in one run of the shell.
MaxEdits == 2

\* The number of files opened in one run of the shell.
MaxLoads == 2

(***************************************************************************)
(* The shell (the main code loop) and its state.                           *)
(***************************************************************************)
VARIABLES
    pc,        \* where the shell is: "file_prompt", "track_menu",
               \* "effect_menu", "velocity_prompt" (inside velocity(), after
               \* an amount it refused), or "crashed" (an exception nobody
               \* caught)
    stream,    \* the content of the file last opened
    err,       \* the exception the last operation raised, or "none"
    midi,      \* the MidiFile object `midi`
    declared,  \* the declared length of each track chunk of `midi`
    track,     \* the track selected: 0 is "all"
    saved,     \* the bytes last written to an output file
    lastOp,    \* the last effect applied and what the user typed for it
               \* ("load" when the file was parsed since)
    edits,     \* how many effects were applied
    loads,     \* how many files were opened
    \* One event written and read back (MidiEvent.to_file, then __init__):
    value,     \* the event's timedelta
    encoded,   \* the bytes to_file returned
    decoded,   \* what MidiEvent(f) made of them
    \* One event parsed from a stream (MidiEvent.__init__):
    parsed,    \* what MidiEvent(f) returned or raised
    \* MidiTrack.__init__, one turn of its loop at a time:
    tpc,       \* "start", "loop", "returned" or "raised"
    fpos,      \* the offset of f
    remaining, \* the local `length`
    events     \* self.events

Op(name, arg) == [op |-> name, arg |-> arg]

shellVars == <<pc, stream, err, midi, declared, track, saved, lastOp, edits,
               loads>>
eventVars == <<value, encoded, decoded, parsed>>
trackVars == <<tpc, fpos, remaining, events>>
vars == <<shellVars, eventVars, trackVars>>

\* Nothing written, read or parsed yet.
Idle == [err |-> "idle"]

ShellIdle ==
    /\ pc = "file_prompt"
    /\ stream = <<>>
    /\ err = "none"
    /\ midi = NoFile
    /\ declared = <<>>
    /\ track = 0
    /\ saved = <<>>
    /\ lastOp = Op("start", <<>>)
    /\ edits = 0
    /\ loads = 0

EventIdle ==
    /\ value = 0
    /\ encoded = <<>>
    /\ decoded = Idle
    /\ parsed = Idle

TrackIdle ==
    /\ tpc = "idle"
    /\ fpos = 0
    /\ remaining = 0
    /\ events = <<>>

Init == ShellIdle /\ EventIdle /\ TrackIdle

\* Lines 329-337: open the file and parse it.  MIDIError is caught and the
\* prompt comes back; any other exception ends the program.
Loaded(data, r) ==
    /\ stream' = data
    /\ err' = r.err
    /\ lastOp' = Op("load", <<>>)
    /\ IF r.err = "none"
       THEN /\ midi' = r.file
            /\ declared' = r.declared
            /\ pc' = "track_menu"
       ELSE /\ UNCHANGED <<midi, declared>>
            /\ pc' = IF r.err = "MIDIError" THEN "file_prompt" ELSE "crashed"

LoadFile(data) ==
    /\ pc = "file_prompt"
    /\ loads < MaxLoads
    /\ loads' = loads + 1
    /\ Loaded(data, MidiFile(data))
    /\ UNCHANGED <<track, saved, edits, eventVars, trackVars>>

\* Lines 347-367: "a" or a track number.
SelectTrack(t) ==
    /\ pc = "track_menu"
    /\ t \in 0..Len(midi.tracks)
    /\ track' = t
    /\ pc' = "effect_menu"
    /\ UNCHANGED <<stream, err, midi, declared, saved, lastOp, edits,
                   loads, eventVars, trackVars>>

\* Lines 350-351: "b" at the track menu breaks out to the file prompt.
\* `midi` stays bound to the object parsed before and the files written
\* stay written.
BackToFile ==
    /\ pc = "track_menu"
    /\ pc' = "file_prompt"
    /\ UNCHANGED <<stream, err, midi, declared, track, saved, lastOp, edits,
                   loads, eventVars, trackVars>>

\* Line 390: "b" at the effect menu.
BackToTrack ==
    /\ pc = "effect_menu"
    /\ pc' = "track_menu"
    /\ UNCHANGED <<stream, err, midi, declared, track, saved, lastOp, edits,
                   loads, eventVars, trackVars>>

\* Lines 352-357 and 392-397: "s" at either menu.
Save ==
    /\ pc \in {"track_menu", "effect_menu"}
    /\ saved' = FileToFile(midi)
    /\ UNCHANGED <<pc, stream, err, midi, declared, track, lastOp, edits,
                   loads, eventVars, trackVars>>

Edit(name, arg, tracks) ==
    /\ midi' = [midi EXCEPT !.tracks = tracks]
    /\ edits' = edits + 1
    /\ lastOp' = Op(name, arg)
    /\ UNCHANGED <<stream, declared, track, saved, loads, eventVars, trackVars>>

\* Option 1.
Pitch(amount) ==
    /\ pc = "effect_menu"
    /\ edits < MaxEdits
    /\ Edit("pitch", <<amount>>, PitchTracks(midi.tracks, track, amount))
    /\ UNCHANGED <<pc, err>>

\* Option 2, or one more amount typed at velocity's prompt.  An amount
\* outside 1..127 is refused and asked for again (lines 219-221): nothing is
\* applied and the program waits inside velocity().
Velocity(amount) ==
    /\ pc \in {"effect_menu", "velocity_prompt"}
    /\ edits < MaxEdits
    /\ IF VelocityRefused(amount)
       THEN /\ pc' = "velocity_prompt"
            /\ UNCHANGED <<stream, err, midi, declared, track, saved, lastOp,
                           edits, loads, eventVars, trackVars>>
       ELSE /\ Edit("velocity", <<amount>>,
                    VelocityTracks(midi.tracks, track, amount))
            /\ pc' = "effect_menu"
            /\ UNCHANGED err

\* Lines 212-213: "b" at velocity's prompt returns to the effect menu.
VelocityBack ==
    /\ pc = "velocity_prompt"
    /\ pc' = "effect_menu"
    /\ UNCHANGED <<stream, err, midi, declared, track, saved, lastOp, edits,
                   loads, eventVars, trackVars>>

\* Option 3.
Chorus(notes) ==
    /\ pc = "effect_menu"
    /\ edits < MaxEdits
    /\ Edit("chorus", notes, ChorusTracks(midi.tracks, track, notes))
    /\ UNCHANGED <<pc, err>>

\* Option 4.  UnboundLocalError is caught nowhere: the program ends.
Delayed(deltas, r) ==
    /\ Edit("delay", deltas, r.tracks)
    /\ err' = r.err
    /\ pc' = IF r.err = "none" THEN pc ELSE "crashed"

Delay(deltas) ==
    /\ pc = "effect_menu"
    /\ edits < MaxEdits
    /\ Delayed(deltas,
               DelayTracks(midi.tracks, track,
                           DelayProcessed(midi.per_quarter_note, deltas),
                           1, None))

Next ==
    \/ \E data \in InputFiles : LoadFile(data)
    \/ \E t \in 0..2 : SelectTrack(t)
    \/ BackToFile
    \/ BackToTrack
    \/ Save
    \/ \E amount \in PitchAmounts : Pitch(amount)
    \/ \E amount \in VelocityAmounts : Velocity(amount)
    \/ VelocityBack
    \/ \E notes \in ChorusNotes : Chorus(notes)
    \/ \E deltas \in DelayDeltas : Delay(deltas)

Spec == Init /\ [][Next]_vars

(***************************************************************************)
(* The effects on their own: pitch(), velocity(), chorus() and delay()     *)
(* called on a file just parsed, with one track or all of them selected.   *)
(***************************************************************************)

\* The files MidiFile(f) accepts.
ParsedFiles == {data \in InputFiles : MidiFile(data).err = "none"}

\* The shell at its effect menu, after a file was opened and a track chosen.
InitEffects ==
    /\ pc = "effect_menu"
    /\ stream \in ParsedFiles
    /\ err = "none"
    /\ midi = MidiFile(stream).file
    /\ declared = MidiFile(stream).declared
    /\ track \in 0..Len(midi.tracks)
    /\ saved = <<>>
    /\ lastOp = Op("load", <<>>)
    /\ edits = 0
    /\ loads = 1
    /\ EventIdle
    /\ TrackIdle

NextEffects ==
    \/ \E amount \in PitchAmounts : Pitch(amount)
    \/ \E amount \in VelocityAmounts : Velocity(amount)
    \/ VelocityBack
    \/ \E notes \in ChorusNotes : Chorus(notes)
    \/ \E deltas \in DelayDeltas : Delay(deltas)

SpecEffects == InitEffects /\ [][NextEffects]_vars

(***************************************************************************)
(* One event written by to_file and read back by MidiEvent(f).             *)
(***************************************************************************)

\* Delta-times 0..MaxDelta, and those next to the first MaxGroups powers of
\* 128, where the encoding grows by a byte.
MaxDelta == 300
MaxGroups == 3

DeltaValues ==
    (0..MaxDelta) \cup {(128 ^ g) + d : g \in 1..MaxGroups, d \in {-1, 0, 1}}

InitVarLen ==
    /\ ShellIdle
    /\ TrackIdle
    /\ value \in DeltaValues
    /\ encoded = <<>>
    /\ decoded = Idle
    /\ parsed = Idle

\* to_file of a note-on event (0x90, note 60, velocity 64) whose timedelta
\* is `value`.
WriteEvent ==
    /\ encoded = <<>>
    /\ encoded' = EventToFile(Event(value, 144, 60, 64, 0, <<>>, 0))
    /\ UNCHANGED <<shellVars, trackVars, value, decoded, parsed>>

\* MidiEvent(f) on the bytes written.
ReadEvent ==
    /\ encoded # <<>>
    /\ decoded.err = "idle"
    /\ decoded' = MidiEvent(encoded, 0)
    /\ UNCHANGED <<shellVars, trackVars, value, encoded, parsed>>

NextVarLen == WriteEvent \/ ReadEvent

SpecVarLen == InitVarLen /\ [][NextVarLen]_vars

(***************************************************************************)
(* One system or meta event parsed by MidiEvent(f).                        *)
(***************************************************************************)

\* Payloads of 0..MaxPayload bytes: their length prefix takes one byte up
\* to 127 and two from 128 on.
MaxPayload == 130

\* delta-time, status byte, the meta type after 0xFF, the length as a
\* variable-length quantity, the payload, and an end of track after it.
EventStreams ==
    {delta \o <<status>> \o (IF status = 255 THEN <<1>> ELSE <<>>)
           \o TimedeltaBytes(n) \o [k \in 1..n |-> 65] \o <<0, 255, 47, 0>> :
        delta \in {<<0>>, <<129, 0>>}, status \in {240, 247, 255},
        n \in 0..MaxPayload}

InitEvent ==
    /\ pc = "file_prompt"
    /\ stream \in EventStreams
    /\ err = "none"
    /\ midi = NoFile
    /\ declared = <<>>
    /\ track = 0
    /\ saved = <<>>
    /\ lastOp = Op("start", <<>>)
    /\ edits = 0
    /\ loads = 0
    /\ EventIdle
    /\ TrackIdle

ParseEvent ==
    /\ parsed.err = "idle"
    /\ parsed' = MidiEvent(stream, 0)
    /\ UNCHANGED <<shellVars, trackVars, value, encoded, decoded>>

NextEvent == ParseEvent

SpecEvent == InitEvent /\ [][NextEvent]_vars

(***************************************************************************)
(* MidiTrack.__init__, one turn of its while loop at a time.               *)
(***************************************************************************)

\* Declared lengths 0..MaxDeclared in front of each body: few of them are
\* the sum of the first events' sizes, the others overshoot or run out.
MaxDeclared == 14

TrackBodies == {BodyNotes, BodyAll, BodyLoose, <<>>}

TrackStreams ==
    {MTrk \o ToBytes(d, 4) \o body : d \in 0..MaxDeclared, body \in TrackBodies}
        \cup {<<77, 84, 104, 100>> \o ToBytes(12, 4) \o BodyNotes}

InitTrack ==
    /\ pc = "file_prompt"
    /\ stream \in TrackStreams
    /\ err = "none"
    /\ midi = NoFile
    /\ declared = <<>>
    /\ track = 0
    /\ saved = <<>>
    /\ lastOp = Op("start", <<>>)
    /\ edits = 0
    /\ loads = 0
    /\ EventIdle
    /\ tpc = "start"
    /\ fpos = 0
    /\ remaining = 0
    /\ events = <<>>

\* Lines 65-68.
TrackHeader ==
    /\ tpc = "start"
    /\ IF Read(stream, 0, 4) # MTrk
       THEN /\ tpc' = "raised"
            /\ err' = "AssertionError"
            /\ fpos' = Advance(stream, 0, 4)
            /\ UNCHANGED remaining
       ELSE /\ tpc' = "loop"
            /\ remaining' = FromBytes(Read(stream, Advance(stream, 0, 4), 4))
            /\ fpos' = Advance(stream, Advance(stream, 0, 4), 4)
            /\ UNCHANGED err
    /\ UNCHANGED <<pc, stream, midi, declared, track, saved, lastOp,
                   edits, loads, eventVars, events>>

\* Lines 70-72, e being what MidiEvent(f) returned or raised.
TrackTurned(e) ==
    /\ fpos' = e.pos
    /\ IF e.err # "none"
       THEN /\ tpc' = "raised"
            /\ err' = e.err
            /\ UNCHANGED <<remaining, events>>
       ELSE /\ events' = Append(events, e.ev)
            /\ remaining' = remaining - e.ev.length
            /\ UNCHANGED <<tpc, err>>

\* One turn of the loop.
TrackEvent ==
    /\ tpc = "loop"
    /\ TrackLoopContinues(remaining)
    /\ TrackTurned(MidiEvent(stream, fpos))
    /\ UNCHANGED <<pc, stream, midi, declared, track, saved, lastOp,
                   edits, loads, eventVars>>

\* The loop's condition is false: __init__ returns.
TrackReturn ==
    /\ tpc = "loop"
    /\ ~TrackLoopContinues(remaining)
    /\ tpc' = "returned"
    /\ UNCHANGED <<shellVars, eventVars, fpos, remaining, events>>

NextTrack == TrackHeader \/ TrackEvent \/ TrackReturn

\* The program is one thread that runs on: a step that can be taken is.
SpecTrack == InitTrack /\ [][NextTrack]_vars /\ WF_vars(NextTrack)

(***************************************************************************)
(* The properties.                                                         *)
(***************************************************************************)

\* The file was parsed and no effect applied since.
JustLoaded == lastOp.op = "load"

\* C1: every well-formed file is parsed, and to_file of the object just
\* parsed is byte for byte the file read.
WholeFileRoundTrip ==
    (JustLoaded /\ stream \in WellFormedFiles) =>
        /\ err = "none"
        /\ FileToFile(midi) = stream

\* How many bytes the encoding of v takes: 1 below 128, 2 below 16384, ...
RECURSIVE Groups(_)
Groups(v) == IF v < 128 THEN 1 ELSE 1 + Groups(v \div 128)

\* The value of the seven-bit groups bs, most significant first.
RECURSIVE GroupsValue(_)
GroupsValue(bs) ==
    IF Len(bs) = 0 THEN 0
    ELSE 128 * GroupsValue(SubSeq(bs, 1, Len(bs) - 1)) + (bs[Len(bs)] % 128)

\* bs is the minimal variable-length encoding of v.
MinimalEncoding(bs, v) ==
    /\ Len(bs) = Groups(v)
    /\ \A k \in 1..(Len(bs) - 1) : bs[k] >= 128
    /\ bs[Len(bs)] < 128
    /\ GroupsValue(bs) = v

\* The delta-time bytes of a written note event: all but its last three.
DeltaPart(bytes) == SubSeq(bytes, 1, Len(bytes) - 3)

\* C2: the delta-time to_file writes for v is the minimal encoding of v,
\* and MidiEvent(f) reads v back from it, consuming exactly those bytes.
VarLenRoundTrip ==
    /\ encoded # <<>> => MinimalEncoding(DeltaPart(encoded), value)
    /\ decoded.err # "idle" =>
           /\ decoded.err = "none"
           /\ decoded.ev.timedelta = value
           /\ decoded.ev.length - 3 = Len(DeltaPart(encoded))
           /\ decoded.pos = Len(encoded)

\* A three-byte delta-time written and read back.
VarLenRoundTripWitness ==
    /\ value = 16384
    /\ Len(encoded) = 6
    /\ decoded.err = "none"

\* Decode of section 4.1: value = (value << 7) | (byte & 0x7F) while the
\* high bit is set; bytes is how many were read.
RECURSIVE VarLenDecode(_, _, _, _)
VarLenDecode(data, pos, acc, n) ==
    IF data[pos + 1] >= 128
    THEN VarLenDecode(data, pos + 1, acc * 128 + (data[pos + 1] % 128), n + 1)
    ELSE [value |-> acc * 128 + data[pos + 1], bytes |-> n + 1]

\* The size of the event at the head of data whose status nibble is 0xF,
\* by the format: delta bytes + 1 + [meta type] + prefix bytes + length.
MetaEventSize(data) ==
    LET d == VarLenDecode(data, 0, 0, 0)
        m == IF data[d.bytes + 1] = 255 THEN 1 ELSE 0
        p == VarLenDecode(data, d.bytes + 1 + m, 0, 0)
    IN  d.bytes + 1 + m + p.bytes + p.value

\* C3: an event of type 0xF consumes its length prefix and then as many
\* payload bytes as the prefix says, also when the prefix is two bytes long.
MetaLengthConsumed ==
    parsed.err # "idle" =>
        /\ parsed.err = "none"
        /\ parsed.ev.length = MetaEventSize(stream)
        /\ parsed.pos = MetaEventSize(stream)

\* The 14 bytes of the header are there, and the header id is not MThd,
\* the header length is below 6, or the division field has its top bit set.
Rejectable(data) ==
    /\ Len(data) >= 14
    /\ \/ Read(data, 0, 4) # MThd
       \/ FromBytes(Read(data, 4, 4)) < 6
       \/ FromBytes(Read(data, 12, 2)) >= 32768

\* C4: such a file is refused with MIDIError, which the shell catches: it
\* is back at the file prompt.
RejectedWithCodecError ==
    (JustLoaded /\ Rejectable(stream)) =>
        (err = "MIDIError" /\ pc = "file_prompt")

\* data is a well-formed file cut short.
IsTruncated(data) ==
    \E w \in WellFormedFiles :
        Len(data) < Len(w) /\ data = SubSeq(w, 1, Len(data))

\* C5: a file that ends before its declared lengths are met is refused.
TruncatedRejected == (JustLoaded /\ IsTruncated(stream)) => err # "none"

\* From offset pos on, bytes is n track chunks, each "MTrk", a length, and
\* that many bytes, and nothing after the last.
RECURSIVE ChunksExact(_, _, _)
ChunksExact(bytes, pos, n) ==
    IF n = 0 THEN pos = Len(bytes)
    ELSE /\ Read(bytes, pos, 4) = MTrk
         /\ pos + 8 <= Len(bytes)
         /\ ChunksExact(bytes, pos + 8 + FromBytes(Read(bytes, pos + 4, 4)),
                        n - 1)

\* In the file last written, the header is followed by as many track chunks
\* as it counts, each declaring the length of the event bytes after it.
WrittenLengthsRecomputed ==
    saved # <<>> =>
        ChunksExact(saved, 8 + FromBytes(Read(saved, 4, 4)),
                    FromBytes(Read(saved, 10, 2)))

\* C6: the events of a track just parsed serialize to as many bytes as the
\* chunk declared; and whatever was done to the tracks, each chunk written
\* declares the length of the event bytes that follow it.
TrackLengthInvariant ==
    /\ (JustLoaded /\ err = "none") =>
           \A t \in DOMAIN midi.tracks :
               Len(ConcatEvents(midi.tracks[t])) = declared[t]
    /\ WrittenLengthsRecomputed

\* C7: per_quarter_note, which delay multiplies by the 16th notes asked
\* for, is bits 0-14 of the division field.
TicksPerQuarterNote ==
    (pc \in {"track_menu", "effect_menu"}) =>
        midi.per_quarter_note = midi.division % 32768

NotesInRange(file) ==
    \A t \in DOMAIN file.tracks : \A k \in DOMAIN file.tracks[t] :
        file.tracks[t][k].note # None =>
            (0 <= file.tracks[t][k].note /\ file.tracks[t][k].note <= 127)

HasNoNote(e) == e.note = None

\* The events without a note, track by track.
Unnoted(file) ==
    [t \in DOMAIN file.tracks |-> SelectSeq(file.tracks[t], HasNoNote)]

EffectStep(names) == lastOp'.op \in names /\ edits' = edits + 1

\* C8: pitch and chorus keep every note within 0..127, whatever the
\* amount, and leave the events without a note as they are.
NoteRangeKept ==
    [][EffectStep({"pitch", "chorus"}) =>
           /\ NotesInRange(midi) => NotesInRange(midi')
           /\ Unnoted(midi') = Unnoted(midi)]_vars

\* pitch by -200 and then a chorus of +200: notes at both ends of the range.
NoteRangeKeptWitness ==
    /\ lastOp = Op("chorus", <<200>>)
    /\ edits = 2
    /\ \E t \in DOMAIN midi.tracks : \E k \in DOMAIN midi.tracks[t] :
           midi.tracks[t][k].note = 0
    /\ \E t \in DOMAIN midi.tracks : \E k \in DOMAIN midi.tracks[t] :
           midi.tracks[t][k].note = 127

RECURSIVE SumLengths(_)
SumLengths(evs) ==
    IF Len(evs) = 0 THEN 0 ELSE Head(evs).length + SumLengths(Tail(evs))

\* C9: the track parse ends on every stream; it returns only when the
\* events' consumed bytes sum to the declared length; once the countdown is
\* below zero it stays there, the parse never returns and ends in MIDIError.
TrackParseEnds ==
    /\ [](tpc = "returned" =>
              SumLengths(events) = FromBytes(Read(stream, 4, 4)))
    /\ [](remaining < 0 => tpc # "returned")
    /\ [][remaining < 0 => remaining' < 0]_vars
    /\ []((tpc = "raised" /\ remaining < 0) => err = "MIDIError")
    /\ <>(tpc \in {"returned", "raised"})

\* An event overshot the declared length and the parse ended in an error.
TrackParseEndsWitness ==
    /\ tpc = "raised"
    /\ remaining < 0
    /\ Len(events) >= 2

\* The loop of MidiTrack.__init__ taken one turn at a time ends as the
\* whole constructor does.
StepwiseAgrees ==
    /\ tpc = "returned" =>
           /\ MidiTrack(stream, 0).err = "none"
           /\ MidiTrack(stream, 0).events = events
           /\ MidiTrack(stream, 0).pos = fpos
    /\ tpc = "raised" =>
           /\ MidiTrack(stream, 0).err = err
           /\ MidiTrack(stream, 0).pos = fpos

\* The absolute tick time of the k-th event: the running sum of timedelta.
RECURSIVE AbsTime(_, _)
AbsTime(evs, k) == IF k = 0 THEN 0 ELSE AbsTime(evs, k - 1) + evs[k].timedelta

\* The events with the time each happens at, in order.
Timeline(evs) ==
    [k \in 1..Len(evs) |->
        [at |-> AbsTime(evs, k), ev |-> [evs[k] EXCEPT !.timedelta = 0]]]

\* xs can be had from ys by leaving entries out.
RECURSIVE IsSubsequence(_, _)
IsSubsequence(xs, ys) ==
    IF Len(xs) = 0 THEN TRUE
    ELSE IF Len(ys) = 0 THEN FALSE
    ELSE IF Head(xs) = Head(ys) THEN IsSubsequence(Tail(xs), Tail(ys))
    ELSE IsSubsequence(xs, Tail(ys))

Count(xs, x) == Cardinality({k \in DOMAIN xs : xs[k] = x})

\* How many copies delay owes at time and content x: one per note event
\* and per delay of T ticks, T after the original.
CopiesOwed(old, processed, x) ==
    Cardinality({c \in (DOMAIN old) \X (DOMAIN processed) :
                    /\ old[c[1]].note # None
                    /\ x.at = AbsTime(old, c[1]) + processed[c[2]]
                    /\ x.ev = [old[c[1]] EXCEPT !.timedelta = 0]})

\* What delay is to make of a track: no negative timedelta, the events
\* there before at their times and in their order, and the copies owed.
TrackDelayed(old, new, processed) ==
    /\ \A k \in DOMAIN new : new[k].timedelta >= 0
    /\ IsSubsequence(Timeline(old), Timeline(new))
    /\ \A k \in DOMAIN new :
           Count(Timeline(new), Timeline(new)[k])
               = Count(Timeline(old), Timeline(new)[k])
                     + CopiesOwed(old, processed, Timeline(new)[k])
    /\ Len(new) = Len(old)
           + Cardinality({k \in DOMAIN old : old[k].note # None})
                 * Len(processed)

DelayedAsOwed ==
    \A t \in Selected(midi.tracks, track) :
        TrackDelayed(midi.tracks[t], midi'.tracks[t],
                     DelayProcessed(midi.per_quarter_note, lastOp'.arg))

\* C10: delay, applied again and again, completes without error and
\* leaves every track it works on delayed as owed.
DelayCompletes ==
    [][EffectStep({"delay"}) =>
           /\ err' = "none"
           /\ pc' = "effect_menu"
           /\ DelayedAsOwed]_vars

\* Whenever delay does complete, the tracks are delayed as owed.
DelayedWhenCompleted ==
    [][(EffectStep({"delay"}) /\ err' = "none") => DelayedAsOwed]_vars

====
